---- MODULE Spec2Model ----
(***************************************************************************)
(* WeCoin (dumbledud/WEC): the award engine of awarding_logic.py on top of *)
(* the cache and lock layer of sheet_manager.py.                           *)
(*                                                                         *)
(* Threads are the callers of app.py / graph_logic.py (one per request).   *)
(* A thread's step holds at most one access to shared state: one store     *)
(* call made while holding sheet_lock, one read or write of a cache, or    *)
(* one run of in-memory code on a dict.  Python dicts are objects: the     *)
(* caches and the threads hold references into udicts / sdicts, so a dict  *)
(* returned from a cache hit is the cached object itself.                  *)
(*                                                                         *)
(* Amounts and multipliers are Python floats.  The model holds them in     *)
(* fixed point, as integer counts of 1/UNIT; the amounts the model runs    *)
(* on are dyadic, for which float arithmetic is exact.  The one float      *)
(* operation that is not exact on them, the floor division by              *)
(* OVERRUN_BRACKET_STEP = 0.05, is modelled by its IEEE-754 results.       *)
(***************************************************************************)
EXTENDS Integers, Sequences, FiniteSets, TLC

\* ------------------------------------------------------------------ bounds
NThreads == 2
NUsers == 2
MaxCalls == 3
WarmUp == 1
MaxTicks == 1
MaxDay == 1
FracBits == 6
LiveCalls == 2

\* ------------------------------------------------ constants of the program
MAX_CACHE_AGE_SECONDS == 30
LEDGER_CACHE_TTL == 60
SIM_CACHE_TTL == 30
STARTING_BALANCE == 400000
SECONDS_PER_DAY == 86400
SECONDS_PER_HOUR == 3600

Threads == 1..NThreads
Users == 1..NUsers
UNIT == 2 ^ FracBits
Fx(n) == n * UNIT

\* The wall clock advances in steps of the longest cache lifetime; START is
\* the clock at start-up (time.time() is far beyond every TTL, so a
\* last_fetch of 0 is always stale), one step before the middle of an hour.
TICK == LEDGER_CACHE_TTL
START == SECONDS_PER_HOUR \div 2 - TICK
MaxNow == START + MaxTicks * TICK

VARIABLES
    CONFIG,            \* awarding_logic.CONFIG
    users_ws,          \* rows 2.. of the Users worksheet
    ledger_ws,         \* rows 2.. of the Ledger worksheet
    sim_ws,            \* row 2 of the Simulation worksheet
    sheet_lock,        \* 0: free, else the thread holding it
    user_cache,        \* user id -> <<>> or <<entry>>
    ledger_cache,
    simulation_cache,  \* data: 0 for {} or a reference into sdicts
    udicts,            \* the user dicts alive: reference -> dict
    sdicts,            \* the simulation dicts alive: reference -> dict
    now,               \* time.time()
    today,             \* datetime.now().date()
    th,                \* per thread: position and locals
    calls,             \* operations started so far
    hist               \* history: what the returned calls reported

vars == <<CONFIG, users_ws, ledger_ws, sim_ws, sheet_lock, user_cache,
          ledger_cache, simulation_cache, udicts, sdicts, now, today, th,
          calls, hist>>

\* ------------------------------------------------------------ configuration
\* 1e14 / 8760.0 is about 1.14e10, beyond the model checker's integers; the
\* model holds a cap that no bounded run can reach either.
HOURLY_2PCT_CAP_DEFAULT == 2 ^ 30

DefaultConfig ==
    [DAILY_USER_CAP |-> Fx(10240),
     MAX_DAILY_PRS |-> 3,
     PR_AWARD |-> 10,
     EA_AWARD_TIERS |-> <<100, 90, 90, 80, 80, 80, 50, 50, 50, 40>>,
     OVERRUN_BRACKET_STEP |-> <<1, 20>>,
     HOURLY_2PCT_CAP |-> HOURLY_2PCT_CAP_DEFAULT,
     DOUBLE_MULTIPLIER |-> Fx(2),
     HALVE_BASE |-> Fx(1),
     USE_HOUR_LOGIC |-> TRUE,
     SECRET_DEV_KEY |-> "mysecret123"]

\* Mutant of dev_override: every key of the patch is stored, known or not.
dev_override_any_key(cfg, secret_key, new_params) ==
    IF secret_key # cfg.SECRET_DEV_KEY
    THEN cfg
    ELSE new_params @@ cfg

\* dev_override: a wrong secret changes nothing; with the right one the
\* keys of new_params that CONFIG already has take the new values.
dev_override(cfg, secret_key, new_params) ==
    IF secret_key # cfg.SECRET_DEV_KEY
    THEN cfg
    ELSE [k \in DOMAIN cfg |->
            IF k \in DOMAIN new_params THEN new_params[k] ELSE cfg[k]]

\* What dev_override returns: success, and the keys it updated (the message
\* lists them).
dev_override_returns(cfg, secret_key, new_params) ==
    IF secret_key # cfg.SECRET_DEV_KEY
    THEN [ok |-> FALSE, updated_keys |-> {}]
    ELSE [ok |-> TRUE,
          updated_keys |-> {k \in DOMAIN new_params : k \in DOMAIN cfg}]

\* The patches the developer applies in the model: caps small enough for a
\* few awards to reach them, with and without the hour logic.
SmallCaps ==
    [DAILY_USER_CAP |-> Fx(25),
     MAX_DAILY_PRS |-> 1,
     HOURLY_2PCT_CAP |-> Fx(20),
     OVERRUN_BRACKET_STEP |-> <<1, 2>>,
     NOT_A_KEY |-> 0]

Patches == {SmallCaps, [USE_HOUR_LOGIC |-> FALSE] @@ SmallCaps}

\* Every patch over some keys of CONFIG and some keys CONFIG does not have,
\* each key with one new value.
NewValues ==
    [DAILY_USER_CAP |-> Fx(25),
     MAX_DAILY_PRS |-> 1,
     USE_HOUR_LOGIC |-> FALSE,
     SECRET_DEV_KEY |-> "guess",
     NOT_A_KEY |-> 0,
     new_key |-> "x"]

DevPatches == {[k \in S |-> NewValues[k]] : S \in SUBSET DOMAIN NewValues}
Secrets == {"mysecret123", "guess"}

\* ------------------------------------------------------------------ helpers
Min(a, b) == IF a <= b THEN a ELSE b

Max(a, b) == IF a >= b THEN a ELSE b

Restrict(f, S) == [x \in (DOMAIN f) \cap S |-> f[x]]

\* A reference no live dict has.
NewRef(heap) ==
    CHOOSE r \in 1..(Cardinality(DOMAIN heap) + 1) :
        /\ r \notin DOMAIN heap
        /\ \A q \in 1..(r - 1) : q \in DOMAIN heap

\* The dicts still referenced by a cache entry or by a thread's local.
LiveUsers(uc, thr) ==
    {uc[u][1].data : u \in {v \in Users : uc[v] # <<>>}}
        \cup {thr[t].user_dict : t \in Threads}

LiveSims(sc, thr) == {sc.data} \cup {thr[t].sim_data : t \in Threads}

Account(user_id, balance, daily_earned, daily_pr_count, total, reset) ==
    [user_id |-> user_id,
     balance |-> balance,
     daily_earned |-> daily_earned,
     daily_pr_count |-> daily_pr_count,
     total_earned_ever |-> total,
     last_daily_reset |-> reset]

Locals ==
    [pc |-> "idle", waiting |-> FALSE, op |-> "none", user_id |-> 0, user_dict |-> 0,
     sim_data |-> 0, row_num |-> 0, now_ts |-> 0, row_values |-> <<>>,
     rows |-> <<>>,
     final_award |-> 0, result |-> "none", via |-> "none",
     pre_user |-> <<>>, pre_sim |-> <<>>, pre_store |-> <<>>,
     seen_appends |-> 0]

InitWith(config) ==
    /\ CONFIG = config
    /\ users_ws = <<>>
    /\ ledger_ws = <<>>
    /\ sim_ws = [hour_index |-> 0, hour_awarding_so_far |-> 0,
                 current_multiplier |-> Fx(1)]
    /\ sheet_lock = 0
    /\ user_cache = [u \in Users |-> <<>>]
    /\ ledger_cache = [rows |-> <<>>, last_fetch |-> 0]
    /\ simulation_cache = [data |-> 0, last_fetch |-> 0]
    /\ udicts = <<>>
    /\ sdicts = <<>>
    /\ now = START
    /\ today = 0
    /\ th = [t \in Threads |-> Locals]
    /\ calls = 0
    /\ hist = [credited |-> [u \in Users |-> 0],
               registered |-> [u \in Users |-> 0],
               put_user |-> [u \in Users |-> <<>>],
               put_sim |-> <<>>,
               awarded |-> 0,
               appends |-> 0,
               dev |-> <<>>]

\* The state after the modules are loaded (sheet_mgr has connected and the
\* three worksheets exist).
Init == InitWith(DefaultConfig)

\* ------------------------------------------------------- thread bookkeeping
Pc(t) == th[t].pc

\* Mutant of Acquire: the lock is taken without waiting for it.
AcquireNoWait(t) == sheet_lock' = t

\* with sheet_lock: entry. A thread waits until the lock is free.
Acquire(t) ==
    /\ sheet_lock = 0
    /\ sheet_lock' = t

\* with sheet_lock: exit.
Release(t) == sheet_lock' = 0

\* The label a thread stands at while it waits for the lock, and the store
\* call it makes once it holds it.
StoreCalls ==
    {"find_user_row_1", "create_user_row", "find_user_row_2",
     "read_user_row", "update_user_row", "read_simulation_data",
     "write_simulation_data", "append_row", "get_all_values"}

\* A thread at a store call either waits for sheet_lock or holds it.
InStoreCall(t) == Pc(t) \in StoreCalls /\ ~th[t].waiting

\* The locals of a thread whose call returns (result "ok" or "limit") or
\* raises ("error"): the references are dropped, what the call reports is
\* handed to the caller.
Returned(l, result) ==
    [Locals EXCEPT !.pc = "return", !.op = l.op, !.user_id = l.user_id, !.result = result,
                   !.final_award = l.final_award, !.rows = l.rows,
                   !.seen_appends = l.seen_appends,
                   !.pre_user = l.pre_user, !.pre_sim = l.pre_sim,
                   !.pre_store = l.pre_store]

\* The values of a cached user dict / of the cached simulation dict.
CachedUser(u) ==
    IF user_cache[u] = <<>> THEN <<>> ELSE <<udicts[user_cache[u][1].data]>>

CachedSim ==
    IF simulation_cache.data = 0 THEN <<>>
    ELSE <<sdicts[simulation_cache.data]>>

Ops == {"register_user", "post_pr", "post_ea", "view_wallet",
        "generate_award_graph"}

\* The three worksheets, as an operation finds them when it starts.
Store == [users |-> users_ws, sim |-> sim_ws, ledger |-> ledger_ws]

\* app.py: a request calls one operation of awarding_logic / graph_logic
\* (the page is drawn anew, without the message of the request before).
Call(t, op, u) ==
    /\ Pc(t) = "idle"
    /\ calls < MaxCalls
    /\ calls' = calls + 1
    /\ th' = [th EXCEPT ![t] =
                [Locals EXCEPT
                    !.pc = IF op = "generate_award_graph"
                           THEN "get_ledger_data" ELSE "get_user_data",
                    !.op = op,
                    !.user_id = IF op = "generate_award_graph" THEN 0 ELSE u,
                    !.pre_user = IF op = "generate_award_graph" THEN <<>>
                                 ELSE CachedUser(u),
                    !.pre_sim = CachedSim,
                    !.pre_store = <<Store>>,
                    !.seen_appends = hist.appends]]
    /\ hist' = [hist EXCEPT !.dev = <<>>]
    /\ UNCHANGED <<CONFIG, users_ws, ledger_ws, sim_ws, sheet_lock,
                   user_cache, ledger_cache, simulation_cache, udicts,
                   sdicts, now, today>>

\* app.py shows the message (or the error) and the request ends.
Return(t) ==
    /\ Pc(t) = "return"
    /\ th' = [th EXCEPT ![t] = Locals]
    /\ UNCHANGED <<CONFIG, users_ws, ledger_ws, sim_ws, sheet_lock,
                   user_cache, ledger_cache, simulation_cache, udicts,
                   sdicts, now, today, calls, hist>>

\* One acquisition of sheet_lock, for whichever store call comes next.
Lock(t) ==
    /\ Pc(t) \in StoreCalls
    /\ th[t].waiting
    /\ Acquire(t)
    /\ th' = [th EXCEPT ![t].waiting = FALSE]
    /\ UNCHANGED <<CONFIG, users_ws, ledger_ws, sim_ws, user_cache,
                   ledger_cache, simulation_cache, udicts, sdicts, now,
                   today, calls, hist>>

\* ------------------------------------------------------------ get_user_data
\* Where an operation goes on after get_user_data returned.
AfterGet(op) ==
    CASE op = "register_user" -> "append_row"
      [] op = "post_pr" -> "post_pr"
      [] op = "post_ea" -> "post_ea"
      [] op = "view_wallet" -> "view_wallet"

\* get_user_data, lines 225-230: a fresh cache entry is returned as it is
\* (the cached dict itself).
get_user_data(t) ==
    LET u == th[t].user_id
        cached == user_cache[u]
    IN  /\ Pc(t) = "get_user_data"
        /\ IF cached # <<>> /\ now - cached[1].last_fetch < MAX_CACHE_AGE_SECONDS
           THEN th' = [th EXCEPT ![t].user_dict = cached[1].data,
                                 ![t].via = "cache",
                                 ![t].pc = AfterGet(th[t].op),
                                 ![t].waiting = AfterGet(th[t].op) \in StoreCalls]
           ELSE th' = [th EXCEPT ![t].now_ts = now,
                                 ![t].pc = "find_user_row_1",
                                 ![t].waiting = TRUE]
        /\ UNCHANGED <<CONFIG, users_ws, ledger_ws, sim_ws, sheet_lock,
                       user_cache, ledger_cache, simulation_cache, udicts,
                       sdicts, now, today, calls, hist>>

\* find_user_row's search: the sheet row (2..) of the first record with
\* this user id, 0 for None.
RowOf(ws, user_id) ==
    IF \E i \in 1..Len(ws) : ws[i].user_id = user_id
    THEN 1 + CHOOSE i \in 1..Len(ws) :
                /\ ws[i].user_id = user_id
                /\ \A j \in 1..(i - 1) : ws[j].user_id # user_id
    ELSE 0

\* Mutant of NewUserRow: the row is created without the starting balance.
NewUserRowEmpty(user_id) ==
    Account(user_id, 0, 0, 0, 0, today)

\* create_user_row(user_id), lines 208-209: the row it will append, with the
\* default starting balance.
NewUserRow(user_id) ==
    Account(user_id, Fx(STARTING_BALANCE), 0, 0, 0, today)

\* find_user_row as called at line 233; when there is no row,
\* create_user_row builds its row and waits for the lock.
find_user_row_1(t) ==
    LET row_num == RowOf(users_ws, th[t].user_id)
    IN  /\ InStoreCall(t) /\ Pc(t) = "find_user_row_1"
        /\ Release(t)
        /\ th' = [th EXCEPT ![t].row_num = row_num,
                            ![t].row_values =
                                IF row_num = 0 THEN NewUserRow(th[t].user_id)
                                ELSE <<>>,
                            ![t].pc = IF row_num = 0 THEN "create_user_row"
                                      ELSE "read_user_row",
                            ![t].waiting = TRUE]
        /\ UNCHANGED <<CONFIG, users_ws, ledger_ws, sim_ws, user_cache,
                       ledger_cache, simulation_cache, udicts, sdicts, now,
                       today, calls, hist>>

\* create_user_row, lines 211-212, called at line 235.
create_user_row(t) ==
    /\ InStoreCall(t) /\ Pc(t) = "create_user_row"
    /\ Release(t)
    /\ users_ws' = Append(users_ws, th[t].row_values)
    /\ th' = [th EXCEPT ![t].pc = "find_user_row_2", ![t].waiting = TRUE,
                        ![t].row_values = <<>>]
    /\ UNCHANGED <<CONFIG, ledger_ws, sim_ws, user_cache, ledger_cache,
                   simulation_cache, udicts, sdicts, now, today, calls,
                   hist>>

\* find_user_row as called at line 236.
find_user_row_2(t) ==
    /\ InStoreCall(t) /\ Pc(t) = "find_user_row_2"
    /\ Release(t)
    /\ th' = [th EXCEPT ![t].row_num = RowOf(users_ws, th[t].user_id),
                        ![t].pc = "read_user_row",
                        ![t].waiting = TRUE]
    /\ UNCHANGED <<CONFIG, users_ws, ledger_ws, sim_ws, user_cache,
                   ledger_cache, simulation_cache, udicts, sdicts, now,
                   today, calls, hist>>

\* Mutant of RowDict: the balance and total_earned_ever columns are read
\* the wrong way round.
RowDictWrongColumn(ws, row_num) ==
    [ws[row_num - 1] EXCEPT !.total_earned_ever = ws[row_num - 1].balance,
                            !.balance = ws[row_num - 1].total_earned_ever]

\* read_user_row: a new dict with the cells of the row.  The cells hold
\* the numbers update_user_row / create_user_row wrote (RAW); float() and
\* int() of their text give the same numbers back.
RowDict(ws, row_num) == ws[row_num - 1]

read_user_row(t) ==
    LET r == NewRef(udicts)
    IN  /\ InStoreCall(t) /\ Pc(t) = "read_user_row"
        /\ Release(t)
        /\ th' = [th EXCEPT ![t].user_dict = r,
                            ![t].via = "store",
                            ![t].pc = "get_user_data_store"]
        /\ udicts' = Restrict((r :> RowDict(users_ws, th[t].row_num)) @@ udicts,
                              LiveUsers(user_cache, th'))
        /\ UNCHANGED <<CONFIG, users_ws, ledger_ws, sim_ws, user_cache,
                       ledger_cache, simulation_cache, sdicts, now, today,
                       calls, hist>>

\* get_user_data, lines 239-244.
get_user_data_store(t) ==
    LET u == th[t].user_id
    IN  /\ Pc(t) = "get_user_data_store"
        /\ user_cache' = [user_cache EXCEPT ![u] =
                            <<[data |-> th[t].user_dict,
                               row_num |-> th[t].row_num,
                               last_fetch |-> th[t].now_ts]>>]
        /\ th' = [th EXCEPT ![t].pc = AfterGet(th[t].op),
                                 ![t].waiting = AfterGet(th[t].op) \in StoreCalls]
        /\ udicts' = Restrict(udicts, LiveUsers(user_cache', th'))
        /\ UNCHANGED <<CONFIG, users_ws, ledger_ws, sim_ws, sheet_lock,
                       ledger_cache, simulation_cache, sdicts, now, today,
                       calls, hist>>

\* ------------------------------------------------------------- award engine
\* Mutant of maybe_reset_daily: the reset clears the lifetime total too.
maybe_reset_daily_total(user_dict) ==
    IF user_dict.last_daily_reset # today
    THEN [user_dict EXCEPT !.daily_earned = 0,
                           !.daily_pr_count = 0,
                           !.total_earned_ever = 0,
                           !.last_daily_reset = today]
    ELSE user_dict

\* Mutant of maybe_reset_daily: the counters are never reset.
maybe_reset_daily_never(user_dict) == user_dict

\* maybe_reset_daily: the dict after the call.
maybe_reset_daily(user_dict) ==
    IF user_dict.last_daily_reset # today
    THEN [user_dict EXCEPT !.daily_earned = 0,
                           !.daily_pr_count = 0,
                           !.last_daily_reset = today]
    ELSE user_dict

\* Mutant of apply_daily_cap: the amount is not clamped to what the cap
\* still allows.
apply_daily_cap_unclamped(user_dict, amt) ==
    IF user_dict.daily_earned >= CONFIG.DAILY_USER_CAP
    THEN [user_dict |-> user_dict, final |-> 0]
    ELSE [user_dict |->
             [user_dict EXCEPT !.balance = @ + amt,
                               !.daily_earned = @ + amt,
                               !.total_earned_ever = @ + amt],
          final |-> amt]

\* Mutant of apply_daily_cap: the lifetime total grows by the amount asked
\* for, not by the amount credited.
apply_daily_cap_total_amt(user_dict, amt) ==
    IF user_dict.daily_earned >= CONFIG.DAILY_USER_CAP
    THEN [user_dict |-> user_dict, final |-> 0]
    ELSE LET allowable == CONFIG.DAILY_USER_CAP - user_dict.daily_earned
             final == Min(amt, allowable)
         IN  [user_dict |->
                 [user_dict EXCEPT !.balance = @ + final,
                                   !.daily_earned = @ + final,
                                   !.total_earned_ever = @ + amt],
              final |-> final]

\* apply_daily_cap: the dict after the call and the amount returned.
apply_daily_cap(user_dict, amt) ==
    IF user_dict.daily_earned >= CONFIG.DAILY_USER_CAP
    THEN [user_dict |-> user_dict, final |-> 0]
    ELSE LET allowable == CONFIG.DAILY_USER_CAP - user_dict.daily_earned
             final == Min(amt, allowable)
         IN  [user_dict |->
                 [user_dict EXCEPT !.balance = @ + final,
                                   !.daily_earned = @ + final,
                                   !.total_earned_ever = @ + final],
              final |-> final]

\* post_pr, lines 50-55: the lazy reset, then the PR limit.
post_pr(t) ==
    LET r == th[t].user_dict
        d == maybe_reset_daily(udicts[r])
    IN  /\ Pc(t) = "post_pr"
        /\ IF d.daily_pr_count >= CONFIG.MAX_DAILY_PRS
           THEN th' = [th EXCEPT ![t] = Returned(th[t], "limit")]
           ELSE th' = [th EXCEPT ![t].pc = "compute_award"]
        /\ udicts' = Restrict([udicts EXCEPT ![r] = d],
                              LiveUsers(user_cache, th'))
        /\ UNCHANGED <<CONFIG, users_ws, ledger_ws, sim_ws, sheet_lock,
                       user_cache, ledger_cache, simulation_cache, sdicts,
                       now, today, calls, hist>>

\* post_ea, lines 64-68.
post_ea(t) ==
    LET r == th[t].user_dict
    IN  /\ Pc(t) = "post_ea"
        /\ th' = [th EXCEPT ![t].pc = "compute_award"]
        /\ udicts' = [udicts EXCEPT ![r] = maybe_reset_daily(@)]
        /\ UNCHANGED <<CONFIG, users_ws, ledger_ws, sim_ws, sheet_lock,
                       user_cache, ledger_cache, simulation_cache, sdicts,
                       now, today, calls, hist>>

\* view_wallet, line 76.
view_wallet(t) ==
    LET r == th[t].user_dict
    IN  /\ Pc(t) = "view_wallet"
        /\ th' = [th EXCEPT ![t].pc = "update_user_data"]
        /\ udicts' = [udicts EXCEPT ![r] = maybe_reset_daily(@)]
        /\ UNCHANGED <<CONFIG, users_ws, ledger_ws, sim_ws, sheet_lock,
                       user_cache, ledger_cache, simulation_cache, sdicts,
                       now, today, calls, hist>>

\* The base amount post_pr / post_ea pass to compute_award.
BaseAmount(op) ==
    IF op = "post_pr" THEN CONFIG.PR_AWARD ELSE CONFIG.EA_AWARD_TIERS[1]

\* compute_award without the hour logic, lines 89-90.
compute_award_daily(t) ==
    LET r == th[t].user_dict
        a == apply_daily_cap(udicts[r], Fx(BaseAmount(th[t].op)))
    IN  /\ Pc(t) = "compute_award"
        /\ ~CONFIG.USE_HOUR_LOGIC
        /\ th' = [th EXCEPT ![t].final_award = a.final,
                            ![t].pc = "update_user_data"]
        /\ udicts' = [udicts EXCEPT ![r] = a.user_dict]
        /\ UNCHANGED <<CONFIG, users_ws, ledger_ws, sim_ws, sheet_lock,
                       user_cache, ledger_cache, simulation_cache, sdicts,
                       now, today, calls, hist>>

\* get_simulation_data, lines 347-349, called at line 92.
get_simulation_data(t) ==
    /\ Pc(t) = "compute_award"
    /\ CONFIG.USE_HOUR_LOGIC
    /\ IF /\ now - simulation_cache.last_fetch < SIM_CACHE_TTL
          /\ simulation_cache.data # 0
       THEN th' = [th EXCEPT ![t].sim_data = simulation_cache.data,
                             ![t].via = "cache",
                             ![t].pc = "compute_award_hour"]
       ELSE th' = [th EXCEPT ![t].now_ts = now,
                             ![t].pc = "read_simulation_data",
                             ![t].waiting = TRUE]
    /\ UNCHANGED <<CONFIG, users_ws, ledger_ws, sim_ws, sheet_lock,
                   user_cache, ledger_cache, simulation_cache, udicts,
                   sdicts, now, today, calls, hist>>

\* read_simulation_data: a new dict with the cells of row 2 (numbers, as
\* write_simulation_data and _connect_sheets wrote them).
read_simulation_data(t) ==
    LET r == NewRef(sdicts)
    IN  /\ InStoreCall(t) /\ Pc(t) = "read_simulation_data"
        /\ Release(t)
        /\ th' = [th EXCEPT ![t].sim_data = r,
                            ![t].via = "store",
                            ![t].pc = "get_simulation_data_store"]
        /\ sdicts' = (r :> sim_ws) @@ sdicts
        /\ UNCHANGED <<CONFIG, users_ws, ledger_ws, sim_ws, user_cache,
                       ledger_cache, simulation_cache, udicts, now, today,
                       calls, hist>>

\* get_simulation_data, lines 352-354.
get_simulation_data_store(t) ==
    /\ Pc(t) = "get_simulation_data_store"
    /\ simulation_cache' = [data |-> th[t].sim_data,
                            last_fetch |-> th[t].now_ts]
    /\ th' = [th EXCEPT ![t].pc = "compute_award_hour"]
    /\ sdicts' = Restrict(sdicts, LiveSims(simulation_cache', th'))
    /\ UNCHANGED <<CONFIG, users_ws, ledger_ws, sim_ws, sheet_lock,
                   user_cache, ledger_cache, udicts, now, today, calls,
                   hist>>

\* get_fraction_of_hour(hour_index) at wall-clock time t: the seconds into
\* the hour; the fraction is this number over 3600.  hour_index is not
\* used.
get_fraction_of_hour(t) == (t % SECONDS_PER_DAY) % SECONDS_PER_HOUR

\* fraction_of_hour >= 0.5, line 102.
Late(t) == 2 * get_fraction_of_hour(t) >= SECONDS_PER_HOUR

\* Line 96, the floor division (ratio - 1.0) // OVERRUN_BRACKET_STEP on
\* Python floats.  The double nearest 0.05 is above 1/20 and ratio - 1.0 is
\* rounded, so when h is exactly q steps of 0.05 beyond the cap the result
\* is q - 1 for the q listed here and q for the other q up to 20 (1.15 - 1.0
\* is 0.1499999999999999, and 0.1499999999999999 // 0.05 is 2.0).
FloorDivShort == {3, 4, 5, 8, 9, 10, 13, 14, 15, 18, 19, 20}

\* Lines 93-107: the multiplier after the overrun / underrun logic, for
\* hour_awarding_so_far = h; late: fraction_of_hour >= 0.5.
\* ratio >= 1.0 is h >= cap.  (ratio - 1.0) // step is
\* floor((h - cap) / (cap * step)) for the dyadic step the small caps use
\* and wherever h is not a whole number of steps beyond the cap; for the
\* step 0.05 it is the float result above.
Bracket(h) ==
    LET cap == CONFIG.HOURLY_2PCT_CAP
        step == CONFIG.OVERRUN_BRACKET_STEP
        q == ((h - cap) * step[2]) \div (cap * step[1])
        whole == ((h - cap) * step[2]) % (cap * step[1]) = 0
    IN  IF step = <<1, 20>> /\ whole /\ q \in FloorDivShort
        THEN (q - 1) + 1
        ELSE q + 1

\* Mutant of Multiplier: the underrun correction is made before the middle
\* of the hour too.
MultiplierCorrectsEarly(sim_data, late) ==
    LET h == sim_data.hour_awarding_so_far
        cap == CONFIG.HOURLY_2PCT_CAP
    IN  IF h >= cap
        THEN CONFIG.HALVE_BASE \div (2 ^ Bracket(h))
        ELSE IF 2 * h < cap THEN CONFIG.DOUBLE_MULTIPLIER
             ELSE CONFIG.HALVE_BASE

Multiplier(sim_data, late) ==
    LET h == sim_data.hour_awarding_so_far
        cap == CONFIG.HOURLY_2PCT_CAP
    IN  IF h >= cap
        THEN CONFIG.HALVE_BASE \div (2 ^ Bracket(h))
        ELSE IF late
             THEN IF 2 * h < cap THEN CONFIG.DOUBLE_MULTIPLIER
                  ELSE CONFIG.HALVE_BASE
             ELSE sim_data.current_multiplier

\* compute_award with the hour logic, lines 93-110, and
\* write_simulation_data's row_values, lines 332-336.
compute_award_hour(t) ==
    LET r == th[t].user_dict
        s == th[t].sim_data
        mult == Multiplier(sdicts[s], Late(now))
        a == apply_daily_cap(udicts[r], BaseAmount(th[t].op) * mult)
    IN  /\ Pc(t) = "compute_award_hour"
        /\ th' = [th EXCEPT ![t].final_award = a.final,
                            ![t].row_values =
                                [sdicts[s] EXCEPT
                                    !.current_multiplier = mult,
                                    !.hour_awarding_so_far = @ + a.final],
                            ![t].pc = "write_simulation_data",
                            ![t].waiting = TRUE]
        /\ udicts' = [udicts EXCEPT ![r] = a.user_dict]
        /\ sdicts' = [sdicts EXCEPT ![s] =
                        [@ EXCEPT !.current_multiplier = mult,
                                  !.hour_awarding_so_far = @ + a.final]]
        /\ hist' = [hist EXCEPT !.awarded = @ + a.final]
        /\ UNCHANGED <<CONFIG, users_ws, ledger_ws, sim_ws, sheet_lock,
                       user_cache, ledger_cache, simulation_cache, now,
                       today, calls>>

\* write_simulation_data, lines 338-339.
write_simulation_data(t) ==
    /\ InStoreCall(t) /\ Pc(t) = "write_simulation_data"
    /\ Release(t)
    /\ sim_ws' = th[t].row_values
    /\ th' = [th EXCEPT ![t].pc = "update_simulation_data",
                        ![t].row_values = <<>>]
    /\ UNCHANGED <<CONFIG, users_ws, ledger_ws, user_cache, ledger_cache,
                   simulation_cache, udicts, sdicts, now, today, calls,
                   hist>>

\* update_simulation_data, lines 361-362; compute_award returns.
update_simulation_data(t) ==
    /\ Pc(t) = "update_simulation_data"
    /\ simulation_cache' = [data |-> th[t].sim_data, last_fetch |-> now]
    /\ th' = [th EXCEPT ![t].sim_data = 0, ![t].pc = "update_user_data"]
    /\ sdicts' = Restrict(sdicts, LiveSims(simulation_cache', th'))
    /\ hist' = [hist EXCEPT !.put_sim = <<sdicts[th[t].sim_data]>>]
    /\ UNCHANGED <<CONFIG, users_ws, ledger_ws, sim_ws, sheet_lock,
                   user_cache, ledger_cache, udicts, now, today, calls>>

\* ---------------------------------------------------------- update_user_data
\* post_pr line 56, then update_user_data, lines 250-263 (the cache has an
\* entry for every dict get_user_data returned, so row_num is the cached
\* one), and update_user_row's row_values, lines 189-196.
update_user_data(t) ==
    LET r == th[t].user_dict
        d == IF th[t].op = "post_pr"
             THEN [udicts[r] EXCEPT !.daily_pr_count = @ + 1]
             ELSE udicts[r]
    IN  /\ Pc(t) = "update_user_data"
        /\ th' = [th EXCEPT ![t].row_num = user_cache[th[t].user_id][1].row_num,
                            ![t].row_values = d,
                            ![t].pc = "update_user_row",
                            ![t].waiting = TRUE]
        /\ udicts' = [udicts EXCEPT ![r] = d]
        /\ UNCHANGED <<CONFIG, users_ws, ledger_ws, sim_ws, sheet_lock,
                       user_cache, ledger_cache, simulation_cache, sdicts,
                       now, today, calls, hist>>

\* update_user_row, lines 199-200.
update_user_row(t) ==
    /\ InStoreCall(t) /\ Pc(t) = "update_user_row"
    /\ Release(t)
    /\ users_ws' = [users_ws EXCEPT ![th[t].row_num - 1] = th[t].row_values]
    /\ th' = [th EXCEPT ![t].pc = "update_user_data_store",
                        ![t].row_values = <<>>]
    /\ UNCHANGED <<CONFIG, ledger_ws, sim_ws, user_cache, ledger_cache,
                   simulation_cache, udicts, sdicts, now, today, calls,
                   hist>>

\* update_user_data, lines 266-267.
update_user_data_store(t) ==
    LET u == th[t].user_id
        done == th[t].op = "view_wallet"
    IN  /\ Pc(t) = "update_user_data_store"
        /\ user_cache' = [user_cache EXCEPT ![u] =
                            <<[@[1] EXCEPT !.data = th[t].user_dict,
                                           !.last_fetch = now]>>]
        /\ th' = [th EXCEPT ![t] =
                    IF done THEN Returned(th[t], "ok")
                    ELSE [@ EXCEPT !.pc = "append_row", !.waiting = TRUE]]
        /\ udicts' = Restrict(udicts, LiveUsers(user_cache', th'))
        /\ hist' = [hist EXCEPT !.put_user[u] = <<udicts[th[t].user_dict]>>]
        /\ UNCHANGED <<CONFIG, users_ws, ledger_ws, sim_ws, sheet_lock,
                       ledger_cache, simulation_cache, sdicts, now, today,
                       calls>>

\* --------------------------------------------------------------- the ledger
\* Mutant of LedgerRow: a REGISTER entry records the starting balance.
LedgerRowStartingBalance(l) ==
    [user_id |-> l.user_id,
     action_type |-> CASE l.op = "register_user" -> "REGISTER"
                       [] l.op = "post_pr" -> "POST_PR"
                       [] l.op = "post_ea" -> "POST_EA",
     amount_awarded |-> IF l.op = "register_user" THEN Fx(STARTING_BALANCE)
                        ELSE l.final_award]

\* Mutant of LedgerRow: an award's entry records the amount asked for, not
\* the amount credited.
LedgerRowRequested(l) ==
    [user_id |-> l.user_id,
     action_type |-> CASE l.op = "register_user" -> "REGISTER"
                       [] l.op = "post_pr" -> "POST_PR"
                       [] l.op = "post_ea" -> "POST_EA",
     amount_awarded |-> IF l.op = "register_user" THEN 0
                        ELSE Fx(BaseAmount(l.op))]

\* The row append_ledger writes (its timestamp, id and notes left out).
LedgerRow(l) ==
    [user_id |-> l.user_id,
     action_type |-> CASE l.op = "register_user" -> "REGISTER"
                       [] l.op = "post_pr" -> "POST_PR"
                       [] l.op = "post_ea" -> "POST_EA",
     amount_awarded |-> IF l.op = "register_user" THEN 0 ELSE l.final_award]

\* append_ledger, lines 296-300.
append_row(t) ==
    /\ InStoreCall(t) /\ Pc(t) = "append_row"
    /\ Release(t)
    /\ ledger_ws' = Append(ledger_ws, LedgerRow(th[t]))
    /\ th' = [th EXCEPT ![t].pc = "append_ledger"]
    /\ UNCHANGED <<CONFIG, users_ws, sim_ws, user_cache, ledger_cache,
                   simulation_cache, udicts, sdicts, now, today, calls,
                   hist>>

\* append_ledger, lines 301-302; register_user / post_pr / post_ea return.
append_ledger(t) ==
    LET u == th[t].user_id
    IN  /\ Pc(t) = "append_ledger"
        /\ ledger_cache' = [rows |-> <<>>, last_fetch |-> 0]
        /\ th' = [th EXCEPT ![t] = Returned(th[t], "ok")]
        /\ udicts' = Restrict(udicts, LiveUsers(user_cache, th'))
        /\ hist' = [hist EXCEPT
                      !.appends = @ + 1,
                      !.credited[u] = @ + th[t].final_award,
                      !.registered[u] =
                          IF th[t].op = "register_user" THEN @ + 1 ELSE @]
        /\ UNCHANGED <<CONFIG, users_ws, ledger_ws, sim_ws, sheet_lock,
                       user_cache, simulation_cache, sdicts, now, today,
                       calls>>

\* get_ledger_data, lines 278-280, called by generate_award_graph.
get_ledger_data(t) ==
    /\ Pc(t) = "get_ledger_data"
    /\ IF /\ now - ledger_cache.last_fetch < LEDGER_CACHE_TTL
          /\ ledger_cache.rows # <<>>
       THEN th' = [th EXCEPT ![t] =
                     Returned([@ EXCEPT !.rows = ledger_cache.rows], "ok")]
       ELSE th' = [th EXCEPT ![t].now_ts = now,
                             ![t].pc = "get_all_values",
                             ![t].waiting = TRUE]
    /\ UNCHANGED <<CONFIG, users_ws, ledger_ws, sim_ws, sheet_lock,
                   user_cache, ledger_cache, simulation_cache, udicts,
                   sdicts, now, today, calls, hist>>

\* get_ledger_data, lines 283-285.
get_all_values(t) ==
    /\ InStoreCall(t) /\ Pc(t) = "get_all_values"
    /\ Release(t)
    /\ th' = [th EXCEPT ![t].rows = ledger_ws,
                        ![t].pc = "get_ledger_data_store"]
    /\ UNCHANGED <<CONFIG, users_ws, ledger_ws, sim_ws, user_cache,
                   ledger_cache, simulation_cache, udicts, sdicts, now,
                   today, calls, hist>>

\* get_ledger_data, lines 286-288.
get_ledger_data_store(t) ==
    /\ Pc(t) = "get_ledger_data_store"
    /\ ledger_cache' = [rows |-> th[t].rows, last_fetch |-> th[t].now_ts]
    /\ th' = [th EXCEPT ![t] = Returned(th[t], "ok")]
    /\ UNCHANGED <<CONFIG, users_ws, ledger_ws, sim_ws, sheet_lock,
                   user_cache, simulation_cache, udicts, sdicts, now, today,
                   calls, hist>>

\* ---------------------------------------------------------- the environment
\* Mutant of StoreRaises: the lock is not released when the call raises.
StoreRaisesHolding(t) ==
    /\ InStoreCall(t)
    /\ th' = [th EXCEPT ![t] = Returned(th[t], "error")]
    /\ udicts' = Restrict(udicts, LiveUsers(user_cache, th'))
    /\ sdicts' = Restrict(sdicts, LiveSims(simulation_cache, th'))
    /\ UNCHANGED <<CONFIG, users_ws, ledger_ws, sim_ws, sheet_lock,
                   user_cache, ledger_cache, simulation_cache, now, today,
                   calls, hist>>

\* A store call raises: the with block releases the lock, the SheetError
\* propagates through every caller and the operation is abandoned.
StoreRaises(t) ==
    /\ InStoreCall(t)
    /\ Release(t)
    /\ th' = [th EXCEPT ![t] = Returned(th[t], "error")]
    /\ udicts' = Restrict(udicts, LiveUsers(user_cache, th'))
    /\ sdicts' = Restrict(sdicts, LiveSims(simulation_cache, th'))
    /\ UNCHANGED <<CONFIG, users_ws, ledger_ws, sim_ws, user_cache,
                   ledger_cache, simulation_cache, now, today, calls, hist>>

\* Requests are short against the cache lifetimes: the clock's steps fall
\* between requests, and before the last request the model runs.
Quiet == calls < MaxCalls /\ \A t \in Threads : Pc(t) = "idle"

\* The wall clock moves on by one cache lifetime.
Tick ==
    /\ Quiet
    /\ now < MaxNow
    /\ now' = now + TICK
    /\ UNCHANGED <<CONFIG, users_ws, ledger_ws, sim_ws, sheet_lock,
                   user_cache, ledger_cache, simulation_cache, udicts,
                   sdicts, today, th, calls, hist>>

\* Midnight passes.
NewDay ==
    /\ Quiet
    /\ today < MaxDay
    /\ today' = today + 1
    /\ UNCHANGED <<CONFIG, users_ws, ledger_ws, sim_ws, sheet_lock,
                   user_cache, ledger_cache, simulation_cache, udicts,
                   sdicts, now, th, calls, hist>>

\* The developer sets the configuration before the first request.
DevOverride(patches) ==
    /\ calls = 0
    /\ \E secret_key \in Secrets, new_params \in patches :
          /\ CONFIG' = dev_override(CONFIG, secret_key, new_params)
          /\ hist' = [hist EXCEPT !.dev =
                        <<[secret_key |-> secret_key,
                           new_params |-> new_params,
                           before |-> CONFIG,
                           returned |-> dev_override_returns(
                                            CONFIG, secret_key, new_params)]>>]
    /\ UNCHANGED <<users_ws, ledger_ws, sim_ws, sheet_lock, user_cache,
                   ledger_cache, simulation_cache, udicts, sdicts, now,
                   today, th, calls>>

\* ------------------------------------------------------------ specifications
Step(t) ==
    \/ Return(t)
    \/ Lock(t)
    \/ get_user_data(t)
    \/ find_user_row_1(t)
    \/ create_user_row(t)
    \/ find_user_row_2(t)
    \/ read_user_row(t)
    \/ get_user_data_store(t)
    \/ post_pr(t)
    \/ post_ea(t)
    \/ view_wallet(t)
    \/ get_simulation_data(t)
    \/ read_simulation_data(t)
    \/ get_simulation_data_store(t)
    \/ compute_award_hour(t)
    \/ write_simulation_data(t)
    \/ update_simulation_data(t)
    \/ update_user_data(t)
    \/ update_user_row(t)
    \/ update_user_data_store(t)
    \/ append_row(t)
    \/ append_ledger(t)
    \/ get_ledger_data(t)
    \/ get_all_values(t)
    \/ get_ledger_data_store(t)

\* One caller at a time, no store failure.
NextSeq ==
    \/ \E op \in Ops, u \in Users : Call(1, op, u)
    \/ Step(1)
    \/ compute_award_daily(1)
    \/ Tick
    \/ NewDay
    \/ DevOverride(Patches)

SpecSeq == Init /\ [][NextSeq]_vars

\* Concurrent callers working on one user, no store failure.  The first
\* WarmUp calls run one after the other; the later ones overlap.
ConcurrentCall(t, op) ==
    /\ calls <= WarmUp => \A s \in Threads : Pc(s) = "idle"
    /\ Call(t, op, 1)

NextConc ==
    \/ \E t \in Threads, op \in Ops : ConcurrentCall(t, op)
    \/ \E t \in Threads : Step(t)

\* The developer has applied SmallCaps before the first request.
InitConc == InitWith(dev_override(DefaultConfig, "mysecret123", SmallCaps))

SpecConc == InitConc /\ [][NextConc]_vars

\* One caller at a time; any store call may raise.
NextFail ==
    \/ \E op \in Ops : Call(1, op, 1)
    \/ Step(1)
    \/ compute_award_daily(1)
    \/ StoreRaises(1)
    \/ Tick
    \/ NewDay
    \/ DevOverride(Patches)

SpecFail == Init /\ [][NextFail]_vars

\* The developer's page alone: any number of overrides, the secret itself
\* among the keys a patch may change.
NextDev == DevOverride(DevPatches)

SpecDev == Init /\ [][NextDev]_vars

\* ----------------------------------------------------- one award, any inputs
\* compute_award and apply_daily_cap as functions of what they read: the
\* configuration, the account's row, the Pool's row and the time of the
\* hour.  The configurations are the default one and what dev_override
\* makes of it: the caps of the documentation's example (hourly cap 1000,
\* step 0.05), small caps, no PR allowed, the hour logic switched off.
ExampleCaps == [HOURLY_2PCT_CAP |-> Fx(1000)]

AwardPatches ==
    {[k \in {} |-> 0],
     ExampleCaps,
     SmallCaps,
     [MAX_DAILY_PRS |-> 0] @@ SmallCaps,
     [USE_HOUR_LOGIC |-> FALSE] @@ SmallCaps}

AwardConfigs ==
    {dev_override(DefaultConfig, "mysecret123", p) : p \in AwardPatches}

\* daily_earned of the account's row: nothing, part of a cap, a cap, and
\* (under the small cap) more than the cap in force.
EarnedInputs == {0, Fx(10), Fx(25), Fx(10235), Fx(10240)}

\* hour_awarding_so_far of the Pool's row.  The fixed point holds
\* HALVE_BASE / 2^bracket for brackets up to FracBits: the rows further
\* beyond the hourly cap are left out.
HourInputs(config) ==
    {h \in {Fx(n) : n \in {0, 5, 10, 20, 25, 30, 40, 500, 1000, 1050, 1075,
                           1150, 1200}} :
        \/ h < config.HOURLY_2PCT_CAP
        \/ ((h - config.HOURLY_2PCT_CAP) * config.OVERRUN_BRACKET_STEP[2])
               \div (config.HOURLY_2PCT_CAP * config.OVERRUN_BRACKET_STEP[1])
             < FracBits}

\* current_multiplier of the Pool's row: what an earlier award left there.
MultiplierInputs == {Fx(1), Fx(2), Fx(1) \div 4}

\* The sheet holds one account and the Pool's row.  The process has just
\* started (empty caches), or the account's dict is in user_cache as an
\* operation a moment ago left it, equal to the row; the clock stands
\* before or after the middle of the hour.
InitAward ==
    /\ CONFIG \in AwardConfigs
    /\ now \in {START, START + TICK}
    /\ \E e \in EarnedInputs, n \in {0, 1}, reset \in {MaxDay - 1, MaxDay},
          warm \in BOOLEAN :
          LET row == Account(1, Fx(STARTING_BALANCE) + e, e, n, e, reset)
          IN  /\ users_ws = <<row>>
              /\ user_cache =
                    [u \in Users |->
                        IF warm /\ u = 1
                        THEN <<[data |-> 1, row_num |-> 2, last_fetch |-> now]>>
                        ELSE <<>>]
              /\ udicts = IF warm THEN <<row>> ELSE <<>>
    /\ ledger_ws = <<>>
    /\ \E h \in HourInputs(CONFIG), m \in MultiplierInputs :
          sim_ws = [hour_index |-> 0, hour_awarding_so_far |-> h,
                    current_multiplier |-> m]
    /\ sheet_lock = 0
    /\ ledger_cache = [rows |-> <<>>, last_fetch |-> 0]
    /\ simulation_cache = [data |-> 0, last_fetch |-> 0]
    /\ sdicts = <<>>
    /\ today = MaxDay
    /\ th = [t \in Threads |-> Locals]
    /\ calls = 0
    /\ hist = [credited |-> [u \in Users |-> 0],
               registered |-> [u \in Users |-> 0],
               put_user |-> [u \in Users |-> <<>>],
               put_sim |-> <<>>,
               awarded |-> 0,
               appends |-> 0,
               dev |-> <<>>]

\* One post_pr or post_ea for that account.
AwardCall(op) ==
    /\ calls = 0
    /\ Call(1, op, 1)

NextAward ==
    \/ AwardCall("post_pr")
    \/ AwardCall("post_ea")
    \/ Return(1)
    \/ Lock(1)
    \/ get_user_data(1)
    \/ find_user_row_1(1)
    \/ read_user_row(1)
    \/ get_user_data_store(1)
    \/ post_pr(1)
    \/ post_ea(1)
    \/ compute_award_daily(1)
    \/ get_simulation_data(1)
    \/ read_simulation_data(1)
    \/ get_simulation_data_store(1)
    \/ compute_award_hour(1)
    \/ write_simulation_data(1)
    \/ update_simulation_data(1)
    \/ update_user_data(1)
    \/ update_user_row(1)
    \/ update_user_data_store(1)
    \/ append_row(1)
    \/ append_ledger(1)

SpecAward == InitAward /\ [][NextAward]_vars

\* ------------------------------------------------- callers under fairness
\* Concurrent callers working on one user; any store call may raise.  The
\* k-th of the LiveCalls requests runs on thread k, at any time after the
\* request before it has started.  A thread that can take a step (the lock
\* it waits for is free, or it needs none) is not held back for ever.
LiveCall(t, op) ==
    /\ calls < LiveCalls
    /\ t = calls + 1
    /\ Call(t, op, 1)

NextLive ==
    \/ \E t \in Threads, op \in Ops : LiveCall(t, op)
    \/ \E t \in Threads : Step(t)
    \/ \E t \in Threads : StoreRaises(t)

SpecLive ==
    /\ InitConc
    /\ [][NextLive]_vars
    /\ \A t \in Threads : WF_vars(Step(t))

\* =================================================================== claims
RowsOf(u) == {i \in 1..Len(users_ws) : users_ws[i].user_id = u}

\* The row find_user_row gives for a user, as a one-element sequence.
StoredUser(u) ==
    IF RowOf(users_ws, u) = 0 THEN <<>>
    ELSE <<users_ws[RowOf(users_ws, u) - 1]>>

TotalIn(account) ==
    IF account = <<>> THEN 0 ELSE account[1].total_earned_ever

Awarding(t) == th[t].op \in {"post_pr", "post_ea"}

AllReturned == \A t \in Threads : Pc(t) \in {"idle", "return"}

\* C1: with DAILY_USER_CAP fixed, after any sequence of award calls by any
\* users every account has daily_earned <= DAILY_USER_CAP: in every store
\* row and in every user dict (the cached ones and the ones in use).
C1_DailyEarnedWithinCap ==
    /\ \A i \in 1..Len(users_ws) :
          users_ws[i].daily_earned <= CONFIG.DAILY_USER_CAP
    /\ \A r \in DOMAIN udicts :
          udicts[r].daily_earned <= CONFIG.DAILY_USER_CAP

\* An award has been clamped: it returned less than its base amount and
\* left the account exactly at the cap, in the cache and in the store.
C1_Witness ==
    \E t \in Threads :
        /\ Pc(t) = "return" /\ Awarding(t) /\ th[t].result = "ok"
        /\ th[t].final_award > 0
        /\ th[t].final_award < Fx(BaseAmount(th[t].op))
        /\ StoredUser(th[t].user_id)[1].daily_earned = CONFIG.DAILY_USER_CAP
        /\ CachedUser(th[t].user_id)[1].daily_earned = CONFIG.DAILY_USER_CAP

\* C2: total_earned_ever of each account, as held in the cache and as
\* written to the store row, never decreases from one step to the next,
\* whatever sequence of register_user, post_pr, post_ea and view_wallet
\* runs, cache expiry and refetch included.
C2_TotalNeverDecreases ==
    [][\A u \in Users :
          /\ TotalIn(StoredUser(u))' >= TotalIn(StoredUser(u))
          /\ TotalIn(CachedUser(u))' >= TotalIn(CachedUser(u))]_vars

\* A dict refetched from the store after the cache entry expired (or on a
\* new day) carries a positive total.
C2_Witness ==
    \E t \in Threads :
        /\ th[t].via = "store"
        /\ Pc(t) \in {"post_pr", "post_ea", "view_wallet"}
        /\ udicts[th[t].user_dict].total_earned_ever > 0
        /\ now > START

RECURSIVE SumOver(_, _)
SumOver(f, S) ==
    IF S = {} THEN 0
    ELSE LET x == CHOOSE y \in S : TRUE
         IN  f[x] + SumOver(f, S \ {x})

\* The step in which thread t runs lines 93-110 of compute_award.
ComputesAward(t) ==
    Pc(t) = "compute_award_hour" /\ th'[t].pc = "write_simulation_data"

\* C3: no award interleaves between another award's load and store of the
\* Pool: once all calls have returned, hour_awarding_so_far in the store
\* row and in the cache is its value at start-up (0) plus the amounts the
\* calls credited, and every overrun computation used a value of
\* hour_awarding_so_far that included all awards credited before it.
C3_PoolUpdatesNotLost ==
    /\ [](AllReturned =>
            /\ sim_ws.hour_awarding_so_far = SumOver(hist.credited, Users)
            /\ CachedSim # <<>> =>
                 CachedSim[1].hour_awarding_so_far
                     = SumOver(hist.credited, Users))
    /\ [][\A t \in Threads :
            LET h == sdicts[th[t].sim_data].hour_awarding_so_far
            IN  (ComputesAward(t) /\ h >= CONFIG.HOURLY_2PCT_CAP)
                    => h = hist.awarded]_vars

\* Two overlapping calls have returned and both are awards.
AwardsReturned == \A t \in Threads : Pc(t) = "return" /\ Awarding(t)

\* C4: no balance update is lost: once overlapping post_pr / post_ea calls
\* for one user have all returned, the account's balance and
\* total_earned_ever, in the store row and in the cache, are the starting
\* values plus the amounts the calls reported as credited.
C4_BalanceUpdatesNotLost ==
    \A u \in Users :
        \A account \in {StoredUser(u), CachedUser(u)} :
            (AwardsReturned /\ account # <<>>) =>
                /\ account[1].balance = Fx(STARTING_BALANCE) + hist.credited[u]
                /\ account[1].total_earned_ever = hist.credited[u]

\* C5: concurrent get_user_data / register_user calls for one unseen user
\* id leave exactly one row for it: the Users sheet never holds two rows of
\* one user, and holds one once a call for the user has returned.
C5_OneRowPerUser ==
    \A u \in Users :
        /\ Cardinality(RowsOf(u)) <= 1
        /\ (\E t \in Threads : Pc(t) = "return" /\ th[t].user_id = u
                                  /\ th[t].result # "error")
              => Cardinality(RowsOf(u)) = 1

RegisterEntries(u) ==
    {i \in 1..Len(ledger_ws) :
        ledger_ws[i].user_id = u /\ ledger_ws[i].action_type = "REGISTER"}

RegisterInFlight(u) ==
    \E t \in Threads :
        /\ th[t].op = "register_user" /\ th[t].user_id = u
        /\ Pc(t) # "return"

\* C6: n calls of register_user for a new id, one after the other, with or
\* without cache expiry between them, leave exactly one Users row for it
\* and n REGISTER ledger entries, each with amount 0; no step of a
\* register_user call changes the fields of an account that exists (so they
\* are the same after the n-th call as after the first).
C6_RegisterIdempotent ==
    /\ [](\A u \in Users :
            /\ Cardinality(RowsOf(u)) <= 1
            /\ hist.registered[u] >= 1 => Cardinality(RowsOf(u)) = 1
            /\ ~RegisterInFlight(u) =>
                  Cardinality(RegisterEntries(u)) = hist.registered[u]
            /\ \A i \in RegisterEntries(u) : ledger_ws[i].amount_awarded = 0)
    /\ [][\A t \in Threads, u \in Users :
            th[t].op = "register_user" =>
                /\ StoredUser(u) # <<>> => StoredUser(u)' = StoredUser(u)
                /\ CachedUser(u) # <<>> => CachedUser(u)' = CachedUser(u)]_vars

\* register_user has returned for the second time for a user, the second
\* call having refetched the account after the cache entry expired.
C6_Witness ==
    \E t \in Threads :
        /\ Pc(t) = "return" /\ th[t].op = "register_user"
        /\ hist.registered[th[t].user_id] = 2
        /\ Cardinality(RegisterEntries(th[t].user_id)) = 2
        /\ user_cache[th[t].user_id][1].last_fetch > START

\* C7: at most one thread is inside a store call (a read, append or update
\* of the Users, Ledger or Simulation sheet), and a thread inside one holds
\* sheet_lock.
C7_StoreMutualExclusion ==
    /\ Cardinality({t \in Threads : InStoreCall(t)}) <= 1
    /\ \A t \in Threads : InStoreCall(t) => sheet_lock = t

\* One thread is inside a store call while another waits for the lock.
C7_Witness ==
    \E t1, t2 \in Threads :
        /\ InStoreCall(t1)
        /\ Pc(t2) \in StoreCalls /\ th[t2].waiting

\* get_user_data has just returned to its caller.
GotUser(t) ==
    \/ Pc(t) \in {"post_pr", "post_ea", "view_wallet"}
    \/ th[t].op = "register_user" /\ Pc(t) = "append_row" /\ th[t].waiting

\* C8: after update_user_data / update_simulation_data returned, every
\* later get_user_data / get_simulation_data returns the written values
\* until the next write, from the cache (inside the TTL) or refetched from
\* the store (after it).
C8_ReadYourWrites ==
    \A t \in Threads :
        /\ (GotUser(t) /\ hist.put_user[th[t].user_id] # <<>>) =>
              udicts[th[t].user_dict] = hist.put_user[th[t].user_id][1]
        /\ (Pc(t) = "compute_award_hour" /\ hist.put_sim # <<>>) =>
              sdicts[th[t].sim_data] = hist.put_sim[1]

\* An award reads back, after the TTL and from the store, the account and
\* the Pool an earlier award wrote.
C8_Witness ==
    \E t \in Threads :
        /\ Pc(t) = "compute_award_hour" /\ th[t].via = "store"
        /\ hist.put_sim # <<>>
        /\ hist.put_sim[1].hour_awarding_so_far > 0
        /\ hist.put_user[th[t].user_id] # <<>>
        /\ hist.put_user[th[t].user_id][1].total_earned_ever > 0
        /\ user_cache[th[t].user_id][1].last_fetch > START

\* C9: once append_ledger has returned, the next get_ledger_data that
\* starts returns a snapshot with the appended entry: a call returns at
\* least the entries whose append had returned when it started, and the
\* ledger cache never holds, as fresh, a snapshot without an entry whose
\* append has returned.
C9_LedgerReadIsFresh ==
    /\ \A t \in Threads :
          (Pc(t) = "return" /\ th[t].op = "generate_award_graph"
              /\ th[t].result = "ok")
            => Len(th[t].rows) >= th[t].seen_appends
    /\ (now - ledger_cache.last_fetch < LEDGER_CACHE_TTL
           /\ ledger_cache.rows # <<>>)
         => Len(ledger_cache.rows) >= hist.appends

\* C10: when a store call raises during post_pr / post_ea, the user's cache
\* entry and the simulation cache hold the field values they held before
\* the call.
C10_CacheUnchangedOnError ==
    \A t \in Threads :
        (Pc(t) = "return" /\ Awarding(t) /\ th[t].result = "error") =>
            /\ th[t].pre_user # <<>> =>
                  CachedUser(th[t].user_id) = th[t].pre_user
            /\ th[t].pre_sim # <<>> => CachedSim = th[t].pre_sim

\* The operation thread t runs, or has just returned from, was abandoned
\* because a store call raised.
Failed(t) == Pc(t) = "return" /\ th[t].result = "error"

\* C11: an award or register operation is all-or-nothing with respect to
\* the store: when a store call of the operation raised, the Pool row, the
\* Users rows and the Ledger are as the operation found them; in particular
\* hour_awarding_so_far has not been increased by the failed award.
C11_StoreAllOrNothing ==
    \A t \in Threads :
        (Failed(t) /\ th[t].op \in {"register_user", "post_pr", "post_ea"})
            => /\ sim_ws = th[t].pre_store[1].sim
               /\ users_ws = th[t].pre_store[1].users
               /\ ledger_ws = th[t].pre_store[1].ledger

\* C12: dev_override(secret, patch).  A secret that differs from the current
\* SECRET_DEV_KEY is refused and every CONFIG key keeps its value.  With the
\* right secret exactly the keys of the patch that CONFIG already has take
\* the patch's values, the other keys of the patch are ignored and not
\* added, every other CONFIG key is unchanged, and the keys returned are
\* the keys updated.
C12_DevOverride ==
    hist.dev # <<>> =>
        LET d == hist.dev[1]
            known == DOMAIN d.new_params \cap DOMAIN d.before
        IN  IF d.secret_key # d.before.SECRET_DEV_KEY
            THEN ~d.returned.ok /\ CONFIG = d.before
            ELSE /\ d.returned.ok
                 /\ DOMAIN CONFIG = DOMAIN d.before
                 /\ \A k \in known : CONFIG[k] = d.new_params[k]
                 /\ \A k \in DOMAIN d.before \ known : CONFIG[k] = d.before[k]
                 /\ d.returned.updated_keys = known

\* An override with the secret an earlier override set: it changes a key
\* and ignores the unknown key of its patch.
C12_Witness ==
    /\ hist.dev # <<>>
    /\ hist.dev[1].returned.ok
    /\ hist.dev[1].secret_key = "guess"
    /\ "NOT_A_KEY" \in DOMAIN hist.dev[1].new_params
    /\ hist.dev[1].returned.updated_keys # {}
    /\ CONFIG # hist.dev[1].before

\* The Users row of the caller's user as the operation found it.
PreRow(t) ==
    LET ws == th[t].pre_store[1].users
        row_num == RowOf(ws, th[t].user_id)
    IN  IF row_num = 0 THEN <<>> ELSE <<ws[row_num - 1]>>

\* The step of thread t is lines 50-53 / 64 / 76: maybe_reset_daily and,
\* in post_pr, the PR limit.
ResetStep(t) ==
    /\ Pc(t) \in {"post_pr", "post_ea", "view_wallet"}
    /\ th'[t].pc # Pc(t)

\* Thread t is inside compute_award, before the award is credited.
BeforeAward(t) ==
    Pc(t) \in {"compute_award", "read_simulation_data",
               "get_simulation_data_store", "compute_award_hour"}

\* C13: lazy daily reset.  When the account's last_daily_reset differs
\* from today, post_pr / post_ea / view_wallet set daily_earned and
\* daily_pr_count to 0 and last_daily_reset to today before the award is
\* computed; the PR limit and the daily cap are applied to the reset values
\* (an award on a stale account leaves daily_earned equal to the amount it
\* credited).  When last_daily_reset is today the two counters are kept.
C13_LazyDailyReset ==
    /\ [][\A t \in Threads :
            ResetStep(t) =>
                LET d == CachedUser(th[t].user_id)[1]
                    e == CachedUser(th[t].user_id)'[1]
                IN  /\ e.last_daily_reset = today
                    /\ e.balance = d.balance
                    /\ e.total_earned_ever = d.total_earned_ever
                    /\ IF d.last_daily_reset # today
                       THEN e.daily_earned = 0 /\ e.daily_pr_count = 0
                       ELSE /\ e.daily_earned = d.daily_earned
                            /\ e.daily_pr_count = d.daily_pr_count
                    /\ th[t].op = "post_pr" =>
                          (th'[t].result = "limit"
                              <=> e.daily_pr_count >= CONFIG.MAX_DAILY_PRS)]_vars
    /\ [](\A t \in Threads :
            /\ BeforeAward(t) =>
                  udicts[th[t].user_dict].last_daily_reset = today
            /\ (Pc(t) = "return" /\ Awarding(t) /\ th[t].result = "ok"
                    /\ PreRow(t) # <<>>
                    /\ PreRow(t)[1].last_daily_reset # today)
                  => /\ StoredUser(th[t].user_id)[1].daily_earned
                          = th[t].final_award
                     /\ StoredUser(th[t].user_id)[1].daily_pr_count
                          = IF th[t].op = "post_pr" THEN 1 ELSE 0)

\* An account that had reached the daily cap the day before is credited
\* again by the first award of the new day.
C13_Witness ==
    \E t \in Threads :
        /\ Pc(t) = "return" /\ Awarding(t) /\ th[t].result = "ok"
        /\ PreRow(t) # <<>>
        /\ PreRow(t)[1].last_daily_reset # today
        /\ PreRow(t)[1].daily_earned = CONFIG.DAILY_USER_CAP
        /\ th[t].final_award > 0

\* The step of thread t runs apply_daily_cap: lines 89-90, or lines 93-110.
Credits(t) ==
    \/ Pc(t) = "compute_award" /\ th'[t].pc = "update_user_data"
    \/ Pc(t) = "compute_award_hour" /\ th'[t].pc = "write_simulation_data"

\* The amount compute_award passes to apply_daily_cap in that step: the
\* base amount, scaled by the Pool's multiplier when the hour logic is on.
ScaledAmount(t) ==
    IF CONFIG.USE_HOUR_LOGIC
    THEN BaseAmount(th[t].op) * sdicts'[th[t].sim_data].current_multiplier
    ELSE Fx(BaseAmount(th[t].op))

\* C14: daily-cap clamp.  For every account and every scaled amount s the
\* amount credited is min(s, max(0, DAILY_USER_CAP - daily_earned)), and
\* balance, daily_earned and total_earned_ever each grow by exactly the
\* amount credited; nothing else of the account changes.
C14_DailyCapClamp ==
    [][\A t \in Threads :
          Credits(t) =>
              LET d == udicts[th[t].user_dict]
                  e == udicts'[th[t].user_dict]
                  credited == th'[t].final_award
              IN  /\ ScaledAmount(t) >= 0
                  /\ credited =
                        Min(ScaledAmount(t),
                            Max(0, CONFIG.DAILY_USER_CAP - d.daily_earned))
                  /\ e = [d EXCEPT
                            !.balance = @ + credited,
                            !.daily_earned = @ + credited,
                            !.total_earned_ever = @ + credited]]_vars

\* The documented case: daily_earned 10235 under a cap of 10240, a PR
\* scaled to 20 credits 5 and daily_earned becomes 10240.
C14_Witness ==
    \E t \in Threads :
        /\ Pc(t) = "write_simulation_data"
        /\ th[t].op = "post_pr"
        /\ CONFIG.DAILY_USER_CAP = Fx(10240)
        /\ PreRow(t)[1].daily_earned = Fx(10235)
        /\ PreRow(t)[1].last_daily_reset = today
        /\ th[t].row_values.current_multiplier = Fx(2)
        /\ th[t].final_award = Fx(5)
        /\ udicts[th[t].user_dict].daily_earned = Fx(10240)
        /\ udicts[th[t].user_dict].balance = PreRow(t)[1].balance + Fx(5)
        /\ udicts[th[t].user_dict].total_earned_ever
              = PreRow(t)[1].total_earned_ever + Fx(5)

\* The step of thread t is lines 93-110 of compute_award.
HourStep(t) ==
    Pc(t) = "compute_award_hour" /\ th'[t].pc = "write_simulation_data"

\* 2^n, for the brackets.
Pow2(n) == 2 ^ n

\* C15: overrun.  With the hour logic on and ratio >= 1.0 when the award
\* starts, current_multiplier becomes HALVE_BASE / 2^bracket with
\* bracket = floor((ratio - 1.0) / OVERRUN_BRACKET_STEP) + 1 >= 1, which is
\* positive and at most HALVE_BASE / 2, and this multiplier scales the base
\* amount of the same award.
C15_OverrunBracket ==
    [][\A t \in Threads :
          LET sim == sdicts[th[t].sim_data]
              h == sim.hour_awarding_so_far
              cap == CONFIG.HOURLY_2PCT_CAP
              step == CONFIG.OVERRUN_BRACKET_STEP
              bracket == ((h - cap) * step[2]) \div (cap * step[1]) + 1
              mult == sdicts'[th[t].sim_data].current_multiplier
              d == udicts[th[t].user_dict]
          IN  (HourStep(t) /\ h >= cap) =>
                  /\ bracket >= 1
                  /\ mult * Pow2(bracket) = CONFIG.HALVE_BASE
                  /\ mult > 0
                  /\ 2 * mult <= CONFIG.HALVE_BASE
                  /\ th'[t].final_award =
                        Min(BaseAmount(th[t].op) * mult,
                            Max(0, CONFIG.DAILY_USER_CAP - d.daily_earned))]_vars

\* C16: underrun.  With the hour logic on and ratio < 1.0: from the middle
\* of the hour on the multiplier becomes DOUBLE_MULTIPLIER when
\* hour_awarding_so_far is below half the hourly cap and HALVE_BASE
\* otherwise; before the middle of the hour the stored current_multiplier
\* is kept, whatever an earlier award left there.  The resulting multiplier
\* is the one applied to this award.
C16_Underrun ==
    [][\A t \in Threads :
          LET sim == sdicts[th[t].sim_data]
              h == sim.hour_awarding_so_far
              cap == CONFIG.HOURLY_2PCT_CAP
              mult == sdicts'[th[t].sim_data].current_multiplier
              d == udicts[th[t].user_dict]
          IN  (HourStep(t) /\ h < cap) =>
                  /\ IF 2 * get_fraction_of_hour(now) >= SECONDS_PER_HOUR
                     THEN mult = IF 2 * h < cap
                                 THEN CONFIG.DOUBLE_MULTIPLIER
                                 ELSE CONFIG.HALVE_BASE
                     ELSE mult = sim.current_multiplier
                  /\ th'[t].final_award =
                        Min(BaseAmount(th[t].op) * mult,
                            Max(0, CONFIG.DAILY_USER_CAP - d.daily_earned))]_vars

\* Before the middle of the hour an award is doubled by the multiplier an
\* earlier award left in the Pool, although half the hourly cap is used
\* (after the middle of the hour it would be scaled by HALVE_BASE).
C16_Witness ==
    \E t \in Threads :
        /\ Pc(t) = "write_simulation_data"
        /\ 2 * get_fraction_of_hour(now) < SECONDS_PER_HOUR
        /\ th[t].pre_store[1].sim.current_multiplier = CONFIG.DOUBLE_MULTIPLIER
        /\ CONFIG.DOUBLE_MULTIPLIER # CONFIG.HALVE_BASE
        /\ 2 * th[t].pre_store[1].sim.hour_awarding_so_far
              >= CONFIG.HOURLY_2PCT_CAP
        /\ th[t].pre_store[1].sim.hour_awarding_so_far < CONFIG.HOURLY_2PCT_CAP
        /\ th[t].row_values.current_multiplier = CONFIG.DOUBLE_MULTIPLIER
        /\ th[t].final_award
              = BaseAmount(th[t].op) * CONFIG.DOUBLE_MULTIPLIER

\* post_pr of thread t returned the limit message, line 53.
Limited(t) ==
    Pc(t) = "return" /\ th[t].op = "post_pr" /\ th[t].result = "limit"

\* The account as the operation found it: the cached dict, or the Users
\* row when the cache had none.
PreAccount(t) ==
    IF th[t].pre_user # <<>> THEN th[t].pre_user[1] ELSE PreRow(t)[1]

\* The amounts and the PR count of an account.
Counters(account) ==
    <<account.balance, account.daily_earned, account.daily_pr_count,
      account.total_earned_ever>>

\* C17: PR limit.  A post_pr for an account whose daily_pr_count, after the
\* lazy daily reset, is at or above MAX_DAILY_PRS credits nothing and
\* changes no Account or Pool state: balance, daily_earned, daily_pr_count,
\* total_earned_ever, hour_awarding_so_far and current_multiplier are the
\* same as before, in the store and in the cache.
C17_LimitChangesNothing ==
    \A t \in Threads :
        Limited(t) =>
            /\ th[t].final_award = 0
            /\ users_ws = th[t].pre_store[1].users
            /\ sim_ws = th[t].pre_store[1].sim
            /\ CachedSim = th[t].pre_sim
            /\ Counters(CachedUser(th[t].user_id)[1]) = Counters(PreAccount(t))

\* The Ledger rows appended since the operation of thread t started.
NewEntries(t) ==
    SubSeq(ledger_ws, Len(th[t].pre_store[1].ledger) + 1, Len(ledger_ws))

\* C18: a post_pr that hits the daily PR limit is still ledgered: it has
\* appended a Ledger entry for the attempt, with amount_awarded 0.
C18_LimitIsLedgered ==
    \A t \in Threads :
        Limited(t) =>
            /\ Len(NewEntries(t)) = 1
            /\ NewEntries(t)[1].user_id = th[t].user_id
            /\ NewEntries(t)[1].amount_awarded = 0

\* The balance of the caller's account when the operation started (a new
\* account starts with STARTING_BALANCE).
BalanceBefore(t) ==
    IF PreRow(t) = <<>> THEN Fx(STARTING_BALANCE) ELSE PreRow(t)[1].balance

\* C19: a post_pr / post_ea that completes without hitting the PR limit
\* has appended exactly one Ledger entry, POST_PR or POST_EA for its user,
\* whose amount_awarded is the amount the call credited to the account
\* (the growth of the account's balance), also when that amount is 0
\* because the daily cap is used up; no step changes or removes an entry
\* the Ledger already has.
C19_AwardIsLedgered ==
    /\ [][/\ Len(ledger_ws') >= Len(ledger_ws)
          /\ SubSeq(ledger_ws', 1, Len(ledger_ws)) = ledger_ws]_vars
    /\ [](\A t \in Threads :
            (Pc(t) = "return" /\ Awarding(t) /\ th[t].result = "ok") =>
                /\ Len(NewEntries(t)) = 1
                /\ NewEntries(t)[1].user_id = th[t].user_id
                /\ NewEntries(t)[1].action_type =
                      (IF th[t].op = "post_pr" THEN "POST_PR" ELSE "POST_EA")
                /\ NewEntries(t)[1].amount_awarded =
                      StoredUser(th[t].user_id)[1].balance - BalanceBefore(t))

\* An award for an account at its daily cap: nothing is credited and the
\* entry with amount 0 is in the Ledger.
C19_Witness ==
    \E t \in Threads :
        /\ Pc(t) = "return" /\ Awarding(t) /\ th[t].result = "ok"
        /\ PreRow(t) # <<>>
        /\ PreRow(t)[1].last_daily_reset = today
        /\ PreRow(t)[1].daily_earned >= CONFIG.DAILY_USER_CAP
        /\ StoredUser(th[t].user_id)[1].balance = PreRow(t)[1].balance
        /\ Len(NewEntries(t)) = 1
        /\ NewEntries(t)[1].amount_awarded = 0

\* C20: every award that credits an amount c adds c to the Pool's
\* hour_awarding_so_far and persists the Pool, with the hour logic on or
\* off; with the hour logic off the multiplier is exactly 1.0, so that the
\* amount credited is min(base_amount, allowable).
C20_PoolCountsEveryAward ==
    \A t \in Threads :
        (Pc(t) = "return" /\ Awarding(t) /\ th[t].result = "ok") =>
            /\ sim_ws.hour_awarding_so_far =
                  th[t].pre_store[1].sim.hour_awarding_so_far
                      + th[t].final_award
            /\ ~CONFIG.USE_HOUR_LOGIC =>
                  th[t].final_award =
                      Min(Fx(BaseAmount(th[t].op)),
                          Max(0, CONFIG.DAILY_USER_CAP
                                   - (StoredUser(th[t].user_id)[1].daily_earned
                                        - th[t].final_award)))

\* The sum of amount_awarded over the first n Ledger rows of user u.
RECURSIVE LedgerSum(_, _)
LedgerSum(u, n) ==
    IF n = 0 THEN 0
    ELSE LedgerSum(u, n - 1)
           + (IF ledger_ws[n].user_id = u THEN ledger_ws[n].amount_awarded
              ELSE 0)

\* C21: balance conservation.  In sequential runs without store failure
\* every account has balance = starting balance (400000) + total_earned_ever,
\* hence balance >= 0, and once the operations have returned
\* total_earned_ever is the sum of amount_awarded over the user's Ledger
\* entries.
C21_BalanceConservation ==
    \A i \in 1..Len(users_ws) :
        /\ users_ws[i].balance
              = Fx(STARTING_BALANCE) + users_ws[i].total_earned_ever
        /\ users_ws[i].balance >= 0
        /\ AllReturned =>
              users_ws[i].total_earned_ever
                  = LedgerSum(users_ws[i].user_id, Len(ledger_ws))

\* An account that two awards, the second one clamped by the daily cap,
\* have brought to the cap.
C21_Witness ==
    \E u \in Users :
        /\ AllReturned
        /\ StoredUser(u) # <<>>
        /\ StoredUser(u)[1].total_earned_ever = CONFIG.DAILY_USER_CAP
        /\ Cardinality({n \in 1..Len(ledger_ws) :
                           /\ ledger_ws[n].user_id = u
                           /\ ledger_ws[n].amount_awarded > 0}) = 2

\* The POST_PR rows of the Ledger for user u.
PostPREntries(u) ==
    {n \in 1..Len(ledger_ws) :
        ledger_ws[n].user_id = u /\ ledger_ws[n].action_type = "POST_PR"}

\* C22: PR count bound.  With MAX_DAILY_PRS fixed and for any interleaving
\* of the calls for a user, every account's daily_pr_count is at most
\* MAX_DAILY_PRS, in the store and in the cache, and at most MAX_DAILY_PRS
\* POST_PR entries are appended for one user on one day (the runs stay
\* within one day); no step of post_ea or view_wallet increases
\* daily_pr_count.
C22_PRCountBound ==
    /\ [](\A u \in Users :
            /\ \A i \in RowsOf(u) :
                  users_ws[i].daily_pr_count <= CONFIG.MAX_DAILY_PRS
            /\ CachedUser(u) # <<>> =>
                  CachedUser(u)[1].daily_pr_count <= CONFIG.MAX_DAILY_PRS
            /\ Cardinality(PostPREntries(u)) <= CONFIG.MAX_DAILY_PRS)
    /\ [][\A t \in Threads :
            (th[t].op \in {"post_ea", "view_wallet"}
                /\ th[t].user_dict # 0 /\ th'[t].user_dict = th[t].user_dict)
              => udicts'[th[t].user_dict].daily_pr_count
                    <= udicts[th[t].user_dict].daily_pr_count
                 \/ \E s \in Threads \ {t} :
                       /\ th[s].op = "post_pr"
                       /\ th[s].user_dict = th[t].user_dict
                       /\ th'[s].pc # th[s].pc]_vars

\* Thread t is inside an operation.
Running(t) == Pc(t) \notin {"idle", "return"}

\* C23: deadlock freedom.  No thread requests sheet_lock while it holds
\* it; the lock is held only inside a store call and is free whenever no
\* store call is in progress, also after a store call raised; and under
\* fair scheduling every operation of every caller eventually returns or
\* raises.
C23_DeadlockFreedom ==
    /\ [](\A t \in Threads : th[t].waiting => sheet_lock # t)
    /\ [](\A t \in Threads : sheet_lock = t => InStoreCall(t))
    /\ []((\A t \in Threads : ~InStoreCall(t)) => sheet_lock = 0)
    /\ \A t \in Threads : Running(t) ~> (Pc(t) = "return")

\* After a thread's store call raised, another thread holds the lock for
\* its own store call.
C23_Witness ==
    \E t \in Threads, s \in Threads :
        /\ t # s
        /\ Failed(t)
        /\ sheet_lock = s
        /\ InStoreCall(s)
====
